---- MODULE Spec2Model ----
(***************************************************************************)
(* Blogicum (django-sprint4): the persisted store (users, categories,      *)
(* locations, posts, comments) and the request handlers of blog/views.py   *)
(* acting on it.  Every request is one atomic step: it reads the store,    *)
(* possibly changes it, and leaves its answer in `response`.               *)
(***************************************************************************)
EXTENDS Integers, Sequences, FiniteSets, TLC

\* ---------------------------------------------------------------- bounds
MaxPosts == 2          \* posts ever created (primary keys 1..MaxPosts)
MaxComments == 1       \* comments ever created
MaxTime == 1           \* the clock runs 0..MaxTime

UserIds == {"u1", "u2"}
Usernames == {"n1", "n2"}
CategoryIds == {"c1"}
LocationIds == {"l1"}
Texts == {"a", "b"}

ANON == "anon"         \* request.user of a request without a session
NULL == "null"         \* a null foreign key
NonNumericId == -1     \* a <post_id> path segment that is not a number

PostIdRange == 1..(MaxPosts + 1)
CommentIdRange == 1..(MaxComments + 1)
Times == 0..MaxTime

VARIABLES
    users,          \* user pk -> username
    categories,     \* category pk -> is_published
    locations,      \* set of location pks
    posts,          \* post pk -> [author, is_published, pub_date, category, location, title]
    comments,       \* comment pk -> [post, author, text]
    nextPostId,     \* next primary key of the post table
    nextCommentId,  \* next primary key of the comment table
    now,            \* timezone.now()
    response        \* the last request and its answer

store == <<users, categories, locations, posts, comments>>
vars == <<users, categories, locations, posts, comments, nextPostId, nextCommentId, now, response>>

\* ---------------------------------------------------------------- helpers
Restrict(f, S) == [x \in S |-> f[x]]
Extend(f, k, v) == [x \in (DOMAIN f) \cup {k} |-> IF x = k THEN v ELSE f[x]]
Min(a, b) == IF a <= b THEN a ELSE b

paginate_by == 10

\* ---------------------------------------------------------------- responses
NoItems == << >>

Out(kind, target_post, target_user, effect, items) ==
    [kind |-> kind, target_post |-> target_post, target_user |-> target_user,
     effect |-> effect, items |-> items]

NotFound == Out("not_found", 0, "", "none", NoItems)
ServerError == Out("server_error", 0, "", "none", NoItems)
RedirectLogin == Out("redirect_login", 0, "", "none", NoItems)
RenderForm == Out("form", 0, "", "none", NoItems)
RenderFormErrors == Out("form_invalid", 0, "", "none", NoItems)

\* redirect('blog:post_detail', post_id=...): the route is posts/<int:post_id>/,
\* so reversing it with a non-numeric value raises NoReverseMatch.
RedirectPostDetail(post_id, effect) ==
    IF post_id = NonNumericId THEN ServerError
    ELSE Out("redirect_post_detail", post_id, "", effect, NoItems)

Request(op, method, viewer, post_id, comment_id, username, text, page, out) ==
    [op |-> op, method |-> method, viewer |-> viewer, post_id |-> post_id,
     comment_id |-> comment_id, username |-> username, text |-> text, page |-> page,
     kind |-> out.kind, target_post |-> out.target_post, target_user |-> out.target_user,
     effect |-> out.effect, items |-> out.items]

NoRequest == Request("none", "", ANON, 0, 0, "", "", 0, Out("none", 0, "", "none", NoItems))

Viewers == (DOMAIN users) \cup {ANON}
is_authenticated(v) == v # ANON

\* ---------------------------------------------------------------- models.py
CascadePosts_none(gone) == comments

\* Comment.post: on_delete=CASCADE
CascadePosts(gone) == Restrict(comments, {c \in DOMAIN comments : comments[c].post \notin gone})

\* Post.category / Post.location: on_delete=SET_NULL
SetNullCategory(p, c) == IF p.category = c THEN [p EXCEPT !.category = NULL] ELSE p
SetNullLocation(p, l) == IF p.location = l THEN [p EXCEPT !.location = NULL] ELSE p

\* ---------------------------------------------------------------- queries
\* category__is_published=True: an inner join on the category table
category__is_published(c) == c \in DOMAIN categories /\ categories[c]

PublishedPostsMixin_filter_undated(p) ==
    /\ p.is_published
    /\ category__is_published(p.category)

\* PublishedPostsMixin.get_queryset
PublishedPostsMixin_filter(p) ==
    /\ p.pub_date <= now
    /\ p.is_published
    /\ category__is_published(p.category)

\* Count('comments')
comment_count(id) == Cardinality({c \in DOMAIN comments : comments[c].post = id})

\* order_by('-pub_date'): every order of S the database may return
order_by_pub_date_desc(S) ==
    {s \in [1..Cardinality(S) -> S] :
        /\ \A i, j \in 1..Cardinality(S) : i # j => s[i] # s[j]
        /\ \A i, j \in 1..Cardinality(S) : i < j => posts[s[i]].pub_date >= posts[s[j]].pub_date}

annotate(s) == [i \in 1..Len(s) |-> [id |-> s[i], comment_count |-> comment_count(s[i])]]

\* Paginator.num_pages / ListView.paginate_queryset
num_pages(n) == IF n = 0 THEN 1 ELSE (n + paginate_by - 1) \div paginate_by

\* Paginator.get_page: an out-of-range page number gives the last page
paginate_queryset_last_page(s, page) ==
    LET n == IF page < 1 \/ page > num_pages(Len(s)) THEN num_pages(Len(s)) ELSE page IN
    Out("ok", 0, "", "none",
        SubSeq(s, (n - 1) * paginate_by + 1, Min(n * paginate_by, Len(s))))

paginate_queryset(s, page) ==
    IF page < 1 \/ page > num_pages(Len(s)) THEN NotFound
    ELSE Out("ok", 0, "", "none",
             SubSeq(s, (page - 1) * paginate_by + 1, Min(page * paginate_by, Len(s))))

Pages == 1..2

\* ---------------------------------------------------------------- Init
Init ==
    /\ users = << >>
    /\ categories = << >>
    /\ locations = {}
    /\ posts = << >>
    /\ comments = << >>
    /\ nextPostId = 1
    /\ nextCommentId = 1
    /\ now = 0
    /\ response = NoRequest

\* ---------------------------------------------------------------- request cycle
\* Requests are handled one at a time: a handler runs when no response is
\* pending, and the pending response is then delivered to the client.
Idle == response.op = "none"

Respond ==
    /\ ~Idle
    /\ response' = NoRequest
    /\ UNCHANGED <<users, categories, locations, posts, comments, nextPostId, nextCommentId, now>>

\* ---------------------------------------------------------------- list views
\* (the handler never reads request.user: the listing is the same for every viewer)
HomePageListView_get_queryset ==
    order_by_pub_date_desc({id \in DOMAIN posts : PublishedPostsMixin_filter(posts[id])})

HomePageListView ==
    /\ Idle
    /\ \E page \in Pages, s \in HomePageListView_get_queryset :
        /\ response' = Request("index", "GET", ANON, 0, 0, "", "", page,
                               paginate_queryset(annotate(s), page))
        /\ UNCHANGED <<users, categories, locations, posts, comments, nextPostId, nextCommentId, now>>

\* CategoryPostsView.get_queryset: the published posts of the category, in
\* the default order of Post (Meta.ordering = ('-pub_date',)), not annotated
CategoryPostsView_get_queryset(category) ==
    order_by_pub_date_desc({id \in DOMAIN posts :
        PublishedPostsMixin_filter(posts[id]) /\ posts[id].category = category})

unannotated(s) == [i \in 1..Len(s) |-> [id |-> s[i]]]

\* (the handler never reads request.user; the slug of a category is its key)
CategoryPostsView ==
    /\ Idle
    /\ \E category_slug \in CategoryIds, page \in Pages :
        /\ IF category__is_published(category_slug)
           THEN \E s \in CategoryPostsView_get_queryset(category_slug) :
                    response' = Request("category_posts", "GET", ANON, 0, 0, category_slug, "",
                                        page, paginate_queryset(unannotated(s), page))
           ELSE response' = Request("category_posts", "GET", ANON, 0, 0, category_slug, "",
                                    page, NotFound)
        /\ UNCHANGED <<users, categories, locations, posts, comments, nextPostId, nextCommentId, now>>

\* ---------------------------------------------------------------- collaborators
\* auth/registration/: CreateView with UserCreationForm (username is unique)
Registration ==
    /\ Idle
    /\ \E u \in UserIds \ DOMAIN users, name \in Usernames :
        /\ \A w \in DOMAIN users : users[w] # name
        /\ users' = Extend(users, u, name)
        /\ response' = NoRequest
        /\ UNCHANGED <<categories, locations, posts, comments, nextPostId, nextCommentId, now>>

\* admin: deleting a User cascades to the user's posts and comments
\* (Post.author, Comment.author: on_delete=CASCADE)
AdminDeleteUser ==
    /\ Idle
    /\ \E u \in DOMAIN users :
        LET gone == {id \in DOMAIN posts : posts[id].author = u}
            kept == CascadePosts(gone)
        IN /\ users' = Restrict(users, DOMAIN users \ {u})
           /\ posts' = Restrict(posts, DOMAIN posts \ gone)
           /\ comments' = Restrict(kept, {c \in DOMAIN kept : kept[c].author # u})
           /\ response' = NoRequest
           /\ UNCHANGED <<categories, locations, nextPostId, nextCommentId, now>>

\* admin: add a Category, or change its is_published flag
AdminSaveCategory ==
    /\ Idle
    /\ \E c \in CategoryIds, pub \in BOOLEAN :
        /\ c \in DOMAIN categories => categories[c] # pub
        /\ categories' = Extend(categories, c, pub)
        /\ response' = NoRequest
        /\ UNCHANGED <<users, locations, posts, comments, nextPostId, nextCommentId, now>>

AdminDeleteCategory ==
    /\ Idle
    /\ \E c \in DOMAIN categories :
        /\ categories' = Restrict(categories, DOMAIN categories \ {c})
        /\ posts' = [id \in DOMAIN posts |-> SetNullCategory(posts[id], c)]
        /\ response' = NoRequest
        /\ UNCHANGED <<users, locations, comments, nextPostId, nextCommentId, now>>

AdminSaveLocation ==
    /\ Idle
    /\ \E l \in LocationIds \ locations :
        /\ locations' = locations \cup {l}
        /\ response' = NoRequest
        /\ UNCHANGED <<users, categories, posts, comments, nextPostId, nextCommentId, now>>

AdminDeleteLocation ==
    /\ Idle
    /\ \E l \in locations :
        /\ locations' = locations \ {l}
        /\ posts' = [id \in DOMAIN posts |-> SetNullLocation(posts[id], l)]
        /\ response' = NoRequest
        /\ UNCHANGED <<users, categories, comments, nextPostId, nextCommentId, now>>

\* time passes
Tick ==
    /\ Idle
    /\ now < MaxTime
    /\ now' = now + 1
    /\ response' = NoRequest
    /\ UNCHANGED <<users, categories, locations, posts, comments, nextPostId, nextCommentId>>

\* ---------------------------------------------------------------- forms.py
\* PostForm: every field of Post but author; title and category are required
\* a GET request submits nothing; a POST of it is the submission with the
\* required fields missing
EmptyPostForm ==
    [title |-> "", is_published |-> FALSE, pub_date |-> 0, category |-> NULL, location |-> NULL]

PostForms ==
    [title : {"t"}, is_published : BOOLEAN, pub_date : Times,
     category : CategoryIds, location : LocationIds \cup {NULL}] \cup {EmptyPostForm}

Submissions(method) == IF method = "GET" THEN {EmptyPostForm} ELSE PostForms

PostForm_is_valid(form) ==
    /\ form.title # ""
    /\ form.category \in DOMAIN categories
    /\ form.location = NULL \/ form.location \in locations

PostForm_save(form, author) ==
    [author |-> author, is_published |-> form.is_published, pub_date |-> form.pub_date,
     category |-> form.category, location |-> form.location, title |-> form.title]

\* CommentForm: fields = ('text',)
CommentForm_is_valid(text) == text # ""

\* UserUpdateForm: username is required and unique
UserUpdateForm_is_valid(v, name) ==
    /\ name # ""
    /\ \A w \in DOMAIN users : w # v => users[w] # name

Methods == {"GET", "POST"}

\* ---------------------------------------------------------------- guards
OnlyAuthorMixin_test_func_anyone(author, v) == TRUE

\* OnlyAuthorMixin.test_func
OnlyAuthorMixin_test_func(author, v) == author = v

OnlyAuthorMixin_handle_no_permission_login(route_post_id) == RedirectLogin

\* OnlyAuthorMixin.handle_no_permission (it also overrides the one
\* LoginRequiredMixin calls for a viewer who is not logged in)
OnlyAuthorMixin_handle_no_permission(route_post_id) == RedirectPostDetail(route_post_id, "none")

\* ---------------------------------------------------------------- posts
PostDetailView_filter_strict(p) ==
    /\ p.is_published
    /\ category__is_published(p.category)
    /\ p.pub_date < now

PostDetailView_filter(p) ==
    /\ p.is_published
    /\ category__is_published(p.category)
    /\ p.pub_date <= now

PostDetailView_get_object_nobody(v, id) ==
    IF id \notin DOMAIN posts THEN NotFound
    ELSE IF PostDetailView_filter(posts[id])
         THEN Out("ok", id, "", "none", NoItems) ELSE NotFound

PostDetailView_get_object(v, id) ==
    IF id \notin DOMAIN posts THEN NotFound
    ELSE IF posts[id].author # v
         THEN (IF PostDetailView_filter(posts[id])
               THEN Out("ok", id, "", "none", NoItems) ELSE NotFound)
         ELSE Out("ok", id, "", "none", NoItems)

PostDetailView ==
    /\ Idle
    /\ \E v \in Viewers, id \in PostIdRange :
        /\ response' = Request("post_detail", "GET", v, id, 0, "", "", 0,
                               PostDetailView_get_object(v, id))
        /\ UNCHANGED <<users, categories, locations, posts, comments, nextPostId, nextCommentId, now>>

PostCreateView_get_success_url(v) == Out("redirect_profile", 0, users[v], "create", NoItems)

PostCreateView_dispatch(v, method, form) ==
    IF ~is_authenticated(v) THEN RedirectLogin
    ELSE IF method = "GET" THEN RenderForm
    ELSE IF ~PostForm_is_valid(form) THEN RenderFormErrors
    ELSE PostCreateView_get_success_url(v)

PostCreateView_form_valid(form, v) == PostForm_save(form, v)

PostCreateView ==
    /\ Idle
    /\ \E v \in Viewers, method \in Methods : \E form \in Submissions(method) :
        LET out == PostCreateView_dispatch(v, method, form) IN
        /\ out.effect = "create" => nextPostId <= MaxPosts
        /\ response' = Request("create_post", method, v, 0, 0, "", "", 0, out)
        /\ IF out.effect = "create"
           THEN /\ posts' = Extend(posts, nextPostId, PostCreateView_form_valid(form, v))
                /\ nextPostId' = nextPostId + 1
           ELSE UNCHANGED <<posts, nextPostId>>
        /\ UNCHANGED <<users, categories, locations, comments, nextCommentId, now>>

PostUpdateView_dispatch(v, id, method, form) ==
    IF ~is_authenticated(v) THEN OnlyAuthorMixin_handle_no_permission(id)
    ELSE IF id \notin DOMAIN posts THEN NotFound
    ELSE IF ~OnlyAuthorMixin_test_func(posts[id].author, v)
         THEN OnlyAuthorMixin_handle_no_permission(id)
    ELSE IF method = "GET" THEN RenderForm
    ELSE IF ~PostForm_is_valid(form) THEN RenderFormErrors
    ELSE RedirectPostDetail(id, "save")

PostUpdateView ==
    /\ Idle
    /\ \E v \in Viewers, id \in PostIdRange, method \in Methods : \E form \in Submissions(method) :
        LET out == PostUpdateView_dispatch(v, id, method, form) IN
        /\ response' = Request("edit_post", method, v, id, 0, "", "", 0, out)
        /\ posts' = IF out.effect = "save"
                    THEN [posts EXCEPT ![id] = PostForm_save(form, posts[id].author)]
                    ELSE posts
        /\ UNCHANGED <<users, categories, locations, comments, nextPostId, nextCommentId, now>>

PostDeleteView_dispatch(v, id, method) ==
    IF ~is_authenticated(v) THEN OnlyAuthorMixin_handle_no_permission(id)
    ELSE IF id \notin DOMAIN posts THEN NotFound
    ELSE IF ~OnlyAuthorMixin_test_func(posts[id].author, v)
         THEN OnlyAuthorMixin_handle_no_permission(id)
    ELSE IF method = "GET" THEN RenderForm
    ELSE Out("redirect_index", 0, "", "delete", NoItems)

PostDeleteView ==
    /\ Idle
    /\ \E v \in Viewers, id \in PostIdRange, method \in Methods :
        LET out == PostDeleteView_dispatch(v, id, method) IN
        /\ response' = Request("delete_post", method, v, id, 0, "", "", 0, out)
        /\ IF out.effect = "delete"
           THEN /\ posts' = Restrict(posts, DOMAIN posts \ {id})
                /\ comments' = CascadePosts({id})
           ELSE UNCHANGED <<posts, comments>>
        /\ UNCHANGED <<users, categories, locations, nextPostId, nextCommentId, now>>

\* ---------------------------------------------------------------- comments
RoutePostIds == PostIdRange \cup {NonNumericId}
SubmittedTexts(method) == IF method = "GET" THEN {""} ELSE Texts \cup {""}

\* get_object_or_404 on the posts the viewer may see
CommentCreateView_dispatch_visible(v, post_id, method, text) ==
    IF PostDetailView_get_object(v, post_id).kind = "not_found" THEN NotFound
    ELSE IF ~is_authenticated(v) THEN RedirectLogin
    ELSE IF method = "GET" THEN RenderForm
    ELSE IF ~CommentForm_is_valid(text) THEN RenderFormErrors
    ELSE RedirectPostDetail(post_id, "create")

CommentCreateView_dispatch(v, post_id, method, text) ==
    IF post_id \notin DOMAIN posts THEN NotFound
    ELSE IF ~is_authenticated(v) THEN RedirectLogin
    ELSE IF method = "GET" THEN RenderForm
    ELSE IF ~CommentForm_is_valid(text) THEN RenderFormErrors
    ELSE RedirectPostDetail(post_id, "create")

CommentCreateView_form_valid_post_author(text, v, post_id) ==
    [post |-> post_id, author |-> posts[post_id].author, text |-> text]

CommentCreateView_form_valid(text, v, post_id) ==
    [post |-> post_id, author |-> v, text |-> text]

CommentCreateView ==
    /\ Idle
    /\ \E v \in Viewers, post_id \in PostIdRange, method \in Methods :
      \E text \in SubmittedTexts(method) :
        LET out == CommentCreateView_dispatch(v, post_id, method, text) IN
        /\ out.effect = "create" => nextCommentId <= MaxComments
        /\ response' = Request("add_comment", method, v, post_id, 0, "", text, 0, out)
        /\ IF out.effect = "create"
           THEN /\ comments' = Extend(comments, nextCommentId,
                                      CommentCreateView_form_valid(text, v, post_id))
                /\ nextCommentId' = nextCommentId + 1
           ELSE UNCHANGED <<comments, nextCommentId>>
        /\ UNCHANGED <<users, categories, locations, posts, nextPostId, now>>

CommentUpdateView_dispatch(v, route_post_id, comment_id, method, text) ==
    IF ~is_authenticated(v) THEN OnlyAuthorMixin_handle_no_permission(route_post_id)
    ELSE IF comment_id \notin DOMAIN comments THEN NotFound
    ELSE IF ~OnlyAuthorMixin_test_func(comments[comment_id].author, v)
         THEN OnlyAuthorMixin_handle_no_permission(route_post_id)
    ELSE IF method = "GET" THEN RenderForm
    ELSE IF ~CommentForm_is_valid(text) THEN RenderFormErrors
    ELSE RedirectPostDetail(comments[comment_id].post, "save")

CommentUpdateView ==
    /\ Idle
    /\ \E v \in Viewers, route_post_id \in RoutePostIds, comment_id \in CommentIdRange,
       method \in Methods :
      \E text \in SubmittedTexts(method) :
        LET out == CommentUpdateView_dispatch(v, route_post_id, comment_id, method, text) IN
        /\ response' = Request("edit_comment", method, v, route_post_id, comment_id, "", text, 0, out)
        /\ comments' = IF out.effect = "save"
                       THEN [comments EXCEPT ![comment_id].text = text]
                       ELSE comments
        /\ UNCHANGED <<users, categories, locations, posts, nextPostId, nextCommentId, now>>

CommentDeleteView_dispatch(v, route_post_id, comment_id, method) ==
    IF ~is_authenticated(v) THEN OnlyAuthorMixin_handle_no_permission(route_post_id)
    ELSE IF comment_id \notin DOMAIN comments THEN NotFound
    ELSE IF ~OnlyAuthorMixin_test_func(comments[comment_id].author, v)
         THEN OnlyAuthorMixin_handle_no_permission(route_post_id)
    ELSE IF method = "GET" THEN RenderForm
    ELSE RedirectPostDetail(comments[comment_id].post, "delete")

CommentDeleteView ==
    /\ Idle
    /\ \E v \in Viewers, route_post_id \in RoutePostIds, comment_id \in CommentIdRange,
       method \in Methods :
        LET out == CommentDeleteView_dispatch(v, route_post_id, comment_id, method) IN
        /\ response' = Request("delete_comment", method, v, route_post_id, comment_id, "", "", 0, out)
        /\ comments' = IF out.effect = "delete"
                       THEN Restrict(comments, DOMAIN comments \ {comment_id})
                       ELSE comments
        /\ UNCHANGED <<users, categories, locations, posts, nextPostId, nextCommentId, now>>

\* ---------------------------------------------------------------- profiles
ProfileDetailView_get_queryset(owner) ==
    order_by_pub_date_desc({id \in DOMAIN posts : posts[id].author = owner})

ProfileDetailView ==
    /\ Idle
    /\ \E v \in Viewers, username \in Usernames, page \in Pages :
        /\ IF \E o \in DOMAIN users : users[o] = username
           THEN LET owner == CHOOSE o \in DOMAIN users : users[o] = username IN
                \E s \in ProfileDetailView_get_queryset(owner) :
                    response' = Request("profile", "GET", v, 0, 0, username, "", page,
                                        paginate_queryset(annotate(s), page))
           ELSE response' = Request("profile", "GET", v, 0, 0, username, "", page, NotFound)
        /\ UNCHANGED <<users, categories, locations, posts, comments, nextPostId, nextCommentId, now>>

SubmittedUsernames(method) == IF method = "GET" THEN {""} ELSE Usernames \cup {""}

ProfileUpdateView_dispatch(v, method, username) ==
    IF ~is_authenticated(v) THEN RedirectLogin
    ELSE IF method = "GET" THEN RenderForm
    ELSE IF ~UserUpdateForm_is_valid(v, username) THEN RenderFormErrors
    ELSE Out("redirect_profile", 0, username, "save", NoItems)

ProfileUpdateView ==
    /\ Idle
    /\ \E v \in Viewers, method \in Methods :
      \E username \in SubmittedUsernames(method) :
        LET out == ProfileUpdateView_dispatch(v, method, username) IN
        /\ response' = Request("edit_profile", method, v, 0, 0, username, "", 0, out)
        /\ users' = IF out.effect = "save" THEN [users EXCEPT ![v] = username] ELSE users
        /\ UNCHANGED <<categories, locations, posts, comments, nextPostId, nextCommentId, now>>

\* ---------------------------------------------------------------- claims
\* The post a pending post_detail response is about
DetailOf(r) == posts[r.post_id]
DetailByNonAuthor ==
    /\ response.op = "post_detail"
    /\ response.post_id \in DOMAIN posts
    /\ DetailOf(response).author # response.viewer
DetailByAuthor ==
    /\ response.op = "post_detail"
    /\ response.post_id \in DOMAIN posts
    /\ DetailOf(response).author = response.viewer

\* C1 (as claimed): a viewer who is not the author gets the post iff it is
\* published, its pub_date <= now and its category is null or published;
\* otherwise not found.
C1_AsClaimed ==
    DetailByNonAuthor =>
        LET p == DetailOf(response) IN
        /\ response.kind \in {"ok", "not_found"}
        /\ response.kind = "ok" <=>
              /\ p.is_published
              /\ p.pub_date <= now
              /\ (p.category = NULL \/ categories[p.category])

\* C1 (amended): a viewer who is not the author gets the post iff it is
\* published, its pub_date <= now (inclusive) and it has a category that is
\* published; otherwise, a post with no category included, not found.
C1_NonAuthorDetail ==
    DetailByNonAuthor =>
        LET p == DetailOf(response) IN
        /\ response.kind \in {"ok", "not_found"}
        /\ response.kind = "ok" <=>
              /\ p.is_published
              /\ p.pub_date <= now
              /\ p.category # NULL
              /\ categories[p.category]

\* a published, past-dated post with no category was requested by a non-author
C1_Witness ==
    /\ DetailByNonAuthor
    /\ DetailOf(response).is_published
    /\ DetailOf(response).pub_date <= now
    /\ DetailOf(response).category = NULL
    /\ response.kind = "not_found"

\* C6: the author of a post gets it from the detail request whatever its
\* is_published, pub_date and category are.
C6_AuthorDetail == DetailByAuthor => response.kind = "ok"

\* the author requested their own unpublished, future-dated post with no category
C6_Witness ==
    /\ DetailByAuthor
    /\ ~DetailOf(response).is_published
    /\ DetailOf(response).pub_date > now
    /\ DetailOf(response).category = NULL
    /\ response.kind = "ok"

\* The posts a listing shows, and what a listing must look like
ItemIds(items) == {items[i].id : i \in 1..Len(items)}

ListingOf(items, expected) ==
    /\ ItemIds(items) = expected
    /\ Len(items) = Cardinality(expected)
    /\ \A i \in 1..Len(items) :
          items[i].comment_count =
              Cardinality({c \in DOMAIN comments : comments[c].post = items[i].id})
    /\ \A i, j \in 1..Len(items) :
          i < j => posts[items[i].id].pub_date >= posts[items[j].id].pub_date

\* the first page of a listing (the bounds keep every listing on one page)
FirstPage(op) == response.op = op /\ response.page = 1

\* C7 (as claimed): the home listing is exactly the posts with is_published,
\* pub_date <= now and category null or published, each with its number of
\* comments, in descending pub_date.
C7_AsClaimed ==
    FirstPage("index") =>
        /\ response.kind = "ok"
        /\ ListingOf(response.items,
                     {id \in DOMAIN posts :
                         /\ posts[id].is_published
                         /\ posts[id].pub_date <= now
                         /\ (posts[id].category = NULL \/ categories[posts[id].category])})

\* C7 (amended): the home listing is exactly the posts with is_published,
\* pub_date <= now and a category that is published (a post with no category
\* is left out), each with its number of comments, in descending pub_date.
C7_HomeListing ==
    FirstPage("index") =>
        /\ response.kind = "ok"
        /\ ListingOf(response.items,
                     {id \in DOMAIN posts :
                         /\ posts[id].is_published
                         /\ posts[id].pub_date <= now
                         /\ posts[id].category # NULL
                         /\ categories[posts[id].category]})

\* a home listing of two posts of different dates, one of them commented
C7_Witness ==
    /\ FirstPage("index")
    /\ Len(response.items) = 2
    /\ posts[response.items[1].id].pub_date # posts[response.items[2].id].pub_date
    /\ \E i \in 1..2 : response.items[i].comment_count = 1

\* C5 (as claimed): the profile listing of O shows all of O's posts to O and,
\* to anyone else, only O's posts that are published, dated <= now and in a
\* null or published category.
C5_AsClaimed ==
    (FirstPage("profile") /\ \E o \in DOMAIN users : users[o] = response.username) =>
        LET O == CHOOSE o \in DOMAIN users : users[o] = response.username
            mine == {id \in DOMAIN posts : posts[id].author = O}
        IN /\ response.kind = "ok"
           /\ ItemIds(response.items) =
                 IF response.viewer = O THEN mine
                 ELSE {id \in mine :
                         /\ posts[id].is_published
                         /\ posts[id].pub_date <= now
                         /\ (posts[id].category = NULL \/ categories[posts[id].category])}

\* What a step does to the entities that existed before it
PostTouched(id) == id \notin DOMAIN posts' \/ posts'[id] # posts[id]
CommentTouched(c) == c \notin DOMAIN comments' \/ comments'[c] # comments[c]

EditDeleteOps == {"edit_post", "delete_post", "edit_comment", "delete_comment"}
PostRouteOps == {"edit_post", "delete_post"}
CommentRouteOps == {"edit_comment", "delete_comment"}

\* C2 (as claimed): a request changes or removes a Post or a Comment only
\* when its viewer is authenticated and is the author of that entity.
C2_AsClaimed ==
    [][response'.op # "none" =>
        /\ \A id \in DOMAIN posts : PostTouched(id) =>
              /\ is_authenticated(response'.viewer)
              /\ posts[id].author = response'.viewer
        /\ \A c \in DOMAIN comments : CommentTouched(c) =>
              /\ is_authenticated(response'.viewer)
              /\ comments[c].author = response'.viewer]_vars

\* C2 (amended): a request changes or removes a Post only when its viewer is
\* authenticated and is the Post's author, and a Comment only when its viewer
\* is authenticated and is the Comment's author, or is the author of the
\* Comment's Post deleting that Post (the Comments on it go with it).
C2_OnlyAuthorMutates ==
    [][response'.op # "none" =>
        /\ \A id \in DOMAIN posts : PostTouched(id) =>
              /\ is_authenticated(response'.viewer)
              /\ posts[id].author = response'.viewer
        /\ \A c \in DOMAIN comments : CommentTouched(c) =>
              /\ is_authenticated(response'.viewer)
              /\ \/ comments[c].author = response'.viewer
                 \/ /\ response'.op = "delete_post"
                    /\ comments[c].post = response'.post_id
                    /\ posts[comments[c].post].author = response'.viewer
                    /\ c \notin DOMAIN comments']_vars

\* an edit or delete request went through
C2_Witness ==
    /\ response.op \in EditDeleteOps
    /\ response.effect \in {"save", "delete"}
    /\ is_authenticated(response.viewer)

\* the requests of an anonymous viewer that need a login
AnonymousLoginRequired(r) ==
    /\ r.viewer = ANON
    /\ \/ r.op \in EditDeleteOps \cup {"create_post", "edit_profile"}
       \/ r.op = "add_comment" /\ r.post_id \in DOMAIN posts

\* C3 (as claimed): an anonymous request for an operation that needs a login
\* is redirected to the login flow and changes no entity.
C3_AsClaimed ==
    [][AnonymousLoginRequired(response') =>
        /\ response'.kind = "redirect_login"
        /\ UNCHANGED store]_vars

\* C3 (amended): an anonymous request to create a Post, to comment on an
\* existing post or to edit the profile is redirected to the login flow; an
\* anonymous request to edit or delete a Post or a Comment is redirected to
\* the detail page of the post id in the route (a server error when that id
\* is not a number); none of them changes an entity.
C3_AnonymousRedirected ==
    [][AnonymousLoginRequired(response') =>
        /\ IF response'.op \in EditDeleteOps
           THEN IF response'.post_id = NonNumericId
                THEN response'.kind = "server_error"
                ELSE /\ response'.kind = "redirect_post_detail"
                     /\ response'.target_post = response'.post_id
           ELSE response'.kind = "redirect_login"
        /\ UNCHANGED store]_vars

\* an anonymous viewer asked to edit an existing comment
C3_Witness ==
    /\ response.viewer = ANON
    /\ response.op = "edit_comment"
    /\ response.method = "POST"
    /\ response.comment_id \in DOMAIN comments
    /\ response.kind = "redirect_post_detail"

\* C4 (as claimed): an authenticated non-author asking to edit or delete a
\* Post or a Comment is redirected to the detail page of the owning Post (the
\* Comment's parent, whatever the route says) and the entity is unchanged.
C4_AsClaimed ==
    [][/\ is_authenticated(response'.viewer)
       /\ \/ /\ response'.op \in PostRouteOps
             /\ response'.post_id \in DOMAIN posts
             /\ posts[response'.post_id].author # response'.viewer
          \/ /\ response'.op \in CommentRouteOps
             /\ response'.comment_id \in DOMAIN comments
             /\ comments[response'.comment_id].author # response'.viewer
       =>
       /\ response'.kind = "redirect_post_detail"
       /\ response'.target_post =
             IF response'.op \in PostRouteOps THEN response'.post_id
             ELSE comments[response'.comment_id].post
       /\ UNCHANGED <<posts, comments>>]_vars

\* The visibility conditions of the specification
SpecVisible(p) ==
    /\ p.is_published
    /\ p.pub_date <= now
    /\ (p.category = NULL \/ categories[p.category])

HiddenFrom(v, id) ==
    /\ id \in DOMAIN posts
    /\ posts[id].author # v
    /\ ~SpecVisible(posts[id])

\* the answer of a post route to a request for post id
RouteKind(op, v, id, method, text) ==
    CASE op = "post_detail" -> PostDetailView_get_object(v, id).kind
      [] op = "edit_post" -> PostUpdateView_dispatch(v, id, method, EmptyPostForm).kind
      [] op = "delete_post" -> PostDeleteView_dispatch(v, id, method).kind
      [] op = "add_comment" -> CommentCreateView_dispatch(v, id, method, text).kind

\* C8 (as claimed): on every post route a post hidden from the viewer is
\* answered like a post id that resolves to nothing, and the detail route
\* answers not found for both.
C8_AsClaimed ==
    (/\ response.op \in {"post_detail", "edit_post", "delete_post", "add_comment"}
     /\ HiddenFrom(response.viewer, response.post_id))
    => \A N \in PostIdRange \ DOMAIN posts :
          /\ response.kind =
                RouteKind(response.op, response.viewer, N, response.method, response.text)
          /\ response.op = "post_detail" => response.kind = "not_found"

\* C9: every Comment references an existing Post, and deleting a Category or
\* a Location deletes no Post: a Post that referenced it stays, with that
\* reference null and its other fields unchanged.
C9_ReferentialActions ==
    [][/\ \A c \in DOMAIN comments' : comments'[c].post \in DOMAIN posts'
       /\ \A k \in (DOMAIN categories) \ (DOMAIN categories') :
             /\ DOMAIN posts' = DOMAIN posts
             /\ \A id \in DOMAIN posts :
                   posts'[id] = IF posts[id].category = k
                                THEN [posts[id] EXCEPT !.category = NULL]
                                ELSE posts[id]
       /\ \A l \in locations \ locations' :
             /\ DOMAIN posts' = DOMAIN posts
             /\ \A id \in DOMAIN posts :
                   posts'[id] = IF posts[id].location = l
                                THEN [posts[id] EXCEPT !.location = NULL]
                                ELSE posts[id]]_vars

\* a commented post was deleted while another post had lost its category
C9_Witness ==
    /\ response.op = "delete_post"
    /\ response.effect = "delete"
    /\ nextCommentId > 1
    /\ comments = << >>
    /\ \E id \in DOMAIN posts : posts[id].category = NULL

\* the one entity a create request added
NewPosts == (DOMAIN posts') \ (DOMAIN posts)
NewComments == (DOMAIN comments') \ (DOMAIN comments)

CreatedOne(r) ==
    IF r.op = "create_post"
    THEN /\ Cardinality(NewPosts) = 1
         /\ \A id \in NewPosts : posts'[id].author = r.viewer
         /\ \A id \in DOMAIN posts : ~PostTouched(id)
         /\ comments' = comments
    ELSE /\ Cardinality(NewComments) = 1
         /\ \A c \in NewComments :
               comments'[c] = [post |-> r.post_id, author |-> r.viewer, text |-> r.text]
         /\ \A c \in DOMAIN comments : ~CommentTouched(c)
         /\ posts' = posts

\* C10 (as claimed): a successful create by viewer V persists exactly one new
\* entity with author V (a Comment on the route's post with the submitted
\* text) and redirects to the detail page of the owning Post.
C10_AsClaimed ==
    [][response'.effect = "create" =>
        /\ is_authenticated(response'.viewer)
        /\ CreatedOne(response')
        /\ response'.kind = "redirect_post_detail"
        /\ response'.target_post =
              IF response'.op = "create_post" THEN CHOOSE id \in NewPosts : TRUE
              ELSE response'.post_id]_vars

\* C10 (amended): a successful create by viewer V persists exactly one new
\* entity with author V (a Comment on the route's post with the submitted
\* text); Create Comment redirects to the detail page of the parent Post,
\* Create Post to the profile page of V.
C10_CreatePersistsOne ==
    [][response'.effect = "create" =>
        /\ is_authenticated(response'.viewer)
        /\ CreatedOne(response')
        /\ IF response'.op = "create_post"
           THEN /\ response'.kind = "redirect_profile"
                /\ response'.target_user = users[response'.viewer]
           ELSE /\ response'.kind = "redirect_post_detail"
                /\ response'.target_post = response'.post_id]_vars

\* a post was created
C10_Witness ==
    /\ response.op = "create_post"
    /\ response.effect = "create"
    /\ response.kind = "redirect_profile"

\* The posts a list view pages through, when the list it was asked for exists
Qualifying(r) ==
    CASE r.op = "index" ->
            {id \in DOMAIN posts : PublishedPostsMixin_filter(posts[id])}
      [] r.op = "category_posts" ->
            {id \in DOMAIN posts :
                PublishedPostsMixin_filter(posts[id]) /\ posts[id].category = r.username}
      [] r.op = "profile" ->
            {id \in DOMAIN posts : users[posts[id].author] = r.username}

LastPage(r) ==
    IF Qualifying(r) = {} THEN 1
    ELSE (Cardinality(Qualifying(r)) + paginate_by - 1) \div paginate_by

\* a list view was asked for a page after the last one
BeyondLastPage(r) ==
    /\ r.op \in {"index", "category_posts", "profile"}
    /\ r.op = "category_posts" => r.username \in DOMAIN categories /\ categories[r.username]
    /\ r.op = "profile" => \E o \in DOMAIN users : users[o] = r.username
    /\ r.page > LastPage(r)

\* C11 (as claimed): a list view asked for a page beyond the last page does
\* not fail: it answers with the items of the last valid page.
C11_AsClaimed ==
    BeyondLastPage(response) =>
        /\ response.kind = "ok"
        /\ Len(response.items) =
              Cardinality(Qualifying(response)) - (LastPage(response) - 1) * paginate_by

\* C11 (amended): a list view (home, category, profile) asked for a page
\* beyond the last page answers not found, with no items.
C11_BeyondLastPageNotFound ==
    BeyondLastPage(response) =>
        /\ response.kind = "not_found"
        /\ response.items = NoItems

\* the second page of a published category holding one listed post was asked for
C11_Witness ==
    /\ BeyondLastPage(response)
    /\ response.op = "category_posts"
    /\ response.page = 2
    /\ Qualifying(response) # {}

\* C12: comment creation checks that the post exists, not that the viewer
\* may see it: a valid comment submitted by an authenticated viewer V on any
\* existing post P, a P whose detail page answers V not found included,
\* persists a Comment by V on P.
C12_CommentOnAnyExistingPost ==
    [][/\ response'.op = "add_comment"
       /\ response'.method = "POST"
       /\ is_authenticated(response'.viewer)
       /\ response'.post_id \in DOMAIN posts
       /\ response'.text # ""
       =>
       /\ response'.kind = "redirect_post_detail"
       /\ \E c \in NewComments :
             comments'[c] = [post |-> response'.post_id, author |-> response'.viewer,
                             text |-> response'.text]
       /\ posts' = posts]_vars

\* a comment was just saved on a post whose detail page answers its author
\* not found
C12_Witness ==
    /\ response.op = "add_comment"
    /\ response.effect = "create"
    /\ PostDetailView_get_object(response.viewer, response.post_id).kind = "not_found"
    /\ \E c \in DOMAIN comments :
          /\ comments[c].post = response.post_id
          /\ comments[c].author = response.viewer

\* ---------------------------------------------------------------- specifications
\* The whole system.
Next ==
    \/ HomePageListView
    \/ CategoryPostsView
    \/ Registration
    \/ AdminDeleteUser
    \/ AdminSaveCategory
    \/ AdminDeleteCategory
    \/ AdminSaveLocation
    \/ AdminDeleteLocation
    \/ Tick
    \/ PostDetailView
    \/ PostCreateView
    \/ PostUpdateView
    \/ PostDeleteView
    \/ CommentCreateView
    \/ CommentUpdateView
    \/ CommentDeleteView
    \/ ProfileDetailView
    \/ ProfileUpdateView
    \/ Respond

Spec == Init /\ [][Next]_vars

\* The blog: every request handler of blog/views.py, with users, categories
\* and the clock changing underneath.  No handler reads a Location, so the
\* location table stays empty here.
NextBlog ==
    \/ HomePageListView
    \/ CategoryPostsView
    \/ Registration
    \/ AdminDeleteUser
    \/ AdminSaveCategory
    \/ AdminDeleteCategory
    \/ Tick
    \/ PostDetailView
    \/ PostCreateView
    \/ PostUpdateView
    \/ PostDeleteView
    \/ CommentCreateView
    \/ CommentUpdateView
    \/ CommentDeleteView
    \/ ProfileDetailView
    \/ ProfileUpdateView
    \/ Respond

SpecBlog == Init /\ [][NextBlog]_vars

\* The schema: the create and delete operations on the five entities.
NextSchema ==
    \/ Registration
    \/ AdminDeleteUser
    \/ AdminSaveCategory
    \/ AdminDeleteCategory
    \/ AdminSaveLocation
    \/ AdminDeleteLocation
    \/ PostCreateView
    \/ PostDeleteView
    \/ CommentCreateView
    \/ CommentDeleteView
    \/ Respond

SpecSchema == Init /\ [][NextSchema]_vars
====
